---- MODULE Spec2Model ----
(***************************************************************************)
(* Cubic spline interpolation (Algorithms/polynomial/cubic_spline.py).     *)
(*                                                                         *)
(* The module has two builders, cubic_spline4_matrix (dense 4n x 4n        *)
(* system) and cubic_spline4 (tridiagonal moments), and one evaluator,     *)
(* map_S, which wraps the n segment functions into one callable.           *)
(*                                                                         *)
(* Numbers are exact rationals <<num, den>> (den > 0, lowest terms); the   *)
(* IEEE values inf and nan that numpy produces on a division by zero are   *)
(* one absorbing value NonFinite.  Arrays are functions on 0..len-1, so    *)
(* every index below is the index the Python source uses.                  *)
(***************************************************************************)
EXTENDS Integers, FiniteSets, Sequences, TLC

\* ------------------------------------------------------------------ bounds
\* x-coordinates of the caller's points are drawn from 0..MaxX
MaxX == 6
\* a point set has at most MaxSeg + 1 points (MaxSeg segments)
MaxSeg == 4
\* a caller holds at most MaxSplines built splines at a time
MaxSplines == 2

\* y-coordinates of the caller's points
YVals == {0, 1}

\* --------------------------------------------------------------- rationals
Abs(a) == IF a < 0 THEN -a ELSE a

RECURSIVE GCD(_, _)
GCD(a, b) == IF b = 0 THEN a ELSE GCD(b, a % b)

NonFinite == <<1, 0>>
IsFinite(r) == r[2] # 0

Norm(n, d) ==
    LET g == GCD(Abs(n), Abs(d))
    IN  IF d < 0 THEN <<(-n) \div g, (-d) \div g>> ELSE <<n \div g, d \div g>>

R(k) == <<k, 1>>
Zero == <<0, 1>>

RMul(a, b) ==
    IF ~IsFinite(a) \/ ~IsFinite(b) THEN NonFinite
    ELSE LET g1 == GCD(Abs(a[1]), b[2])
             g2 == GCD(Abs(b[1]), a[2])
         IN  <<(a[1] \div g1) * (b[1] \div g2), (a[2] \div g2) * (b[2] \div g1)>>

RDiv(a, b) ==
    IF ~IsFinite(a) \/ ~IsFinite(b) \/ b[1] = 0 THEN NonFinite
    ELSE RMul(a, IF b[1] < 0 THEN <<-b[2], -b[1]>> ELSE <<b[2], b[1]>>)

RSub(a, b) ==
    IF ~IsFinite(a) \/ ~IsFinite(b) THEN NonFinite
    ELSE LET g == GCD(a[2], b[2])
         IN  Norm(a[1] * (b[2] \div g) - b[1] * (a[2] \div g), (a[2] \div g) * b[2])

RNeg(a) == IF IsFinite(a) THEN <<-a[1], a[2]>> ELSE NonFinite
RAdd(a, b) == RSub(a, RNeg(b))
RSq(a) == RMul(a, a)
RCube(a) == RMul(a, RMul(a, a))
RLess(a, b) == a[1] * b[2] < b[1] * a[2]
RLeq(a, b) == a[1] * b[2] <= b[1] * a[2]
RAbs(a) == <<Abs(a[1]), a[2]>>
\* floor of a finite rational
RFloor(a) == a[1] \div a[2]

\* ------------------------------------------------------------------ arrays
Size(a) == Cardinality(DOMAIN a)

\* ----------------------------------------------------------------- sorting
\* points[points[:, 0].argsort()]: the rows in ascending order of x.  For the
\* array sizes used here numpy's argsort is an insertion sort, which keeps
\* rows of equal x in their given order.
RECURSIVE InsertRow(_, _, _)
InsertRow(a, k, row) ==
    \* a[0..k-1] is sorted; put row at the place that keeps it so
    IF k > 0 /\ a[k - 1][1] > row[1]
    THEN InsertRow([a EXCEPT ![k] = a[k - 1]], k - 1, row)
    ELSE [a EXCEPT ![k] = row]

RECURSIVE SortFrom(_, _, _)
SortFrom(a, pts, k) ==
    IF k >= Size(pts) THEN a ELSE SortFrom(InsertRow(a, k, pts[k]), pts, k + 1)

\* as SortByX, had the rows been left in the caller's order
SortByX_unsorted(pts) == pts

SortByX(pts) == SortFrom(pts, pts, 0)

\* x, y = points[:, 0], points[:, 1] as float arrays
ColX(pts) == [i \in DOMAIN pts |-> R(pts[i][1])]
ColY(pts) == [i \in DOMAIN pts |-> R(pts[i][2])]

\* ---------------------------------------------------------------- map_S
\* One compiled segment function, func[i](q).
EvalSeg(seg, q) ==
    IF seg.kind = "matrix"
    THEN \* coeff[:,0]*x**3 + coeff[:,1]*x**2 + coeff[:,2]*x + coeff[:,3]
         RAdd(RAdd(RAdd(RMul(seg.a, RCube(q)), RMul(seg.b, RSq(q))),
                   RMul(seg.c, q)), seg.d)
    ELSE \* z[:-1]/(6h)*(x[1:]-x)**3 + z[1:]/(6h)*(x-x[:-1])**3
         \*   + c*(x-x[:-1]) + d*(x[1:]-x)
         RAdd(RAdd(RMul(seg.A, RCube(RSub(seg.xr, q))),
                   RMul(seg.B, RCube(RSub(q, seg.xl)))),
              RAdd(RMul(seg.c, RSub(q, seg.xl)), RMul(seg.d, RSub(seg.xr, q))))

RECURSIVE MinOf(_, _), MaxOf(_, _)
MinOf(x, k) == IF k = 0 THEN x[0]
               ELSE LET m == MinOf(x, k - 1) IN IF RLess(x[k], m) THEN x[k] ELSE m
MaxOf(x, k) == IF k = 0 THEN x[0]
               ELSE LET m == MaxOf(x, k - 1) IN IF RLess(m, x[k]) THEN x[k] ELSE m

\* The closure map_S returns: n, func, start, end, rang.  pts (the sorted
\* array map_S was given) and locals (the builder's arrays) are kept beside
\* it so that properties can speak about them; input is the argument the
\* builder was called with.
map_S(S, pts, builder, input, locals) ==
    LET x == ColX(pts)
        start == MinOf(x, Size(pts) - 1)
        end == MaxOf(x, Size(pts) - 1)
    IN  [n |-> Size(pts) - 1, func |-> S, start |-> start, end |-> end,
         rang |-> RSub(end, start),
         pts |-> pts, builder |-> builder, input |-> input, locals |-> locals]

\* map_points(p): int((p - start) // (rang / n)) if p != end else n - 1.
\* "nan" stands for the exception int() raises on a nan or an inf quotient.
\* (p - start) // (rang / n) is nan or inf when rang / n is 0 or nan, and
\* int() raises on it
Quotient(sp, p) == RDiv(RSub(p, sp.start), RDiv(sp.rang, R(sp.n)))

map_points(sp, p) ==
    IF p = sp.end THEN sp.n - 1 ELSE RFloor(Quotient(sp, p))

\* as Call, had the lookup refused every index outside 0..len-1
Call_checked(sp, p) ==
    LET i == map_points(sp, p)
    IN  IF p # sp.end /\ ~IsFinite(Quotient(sp, p))
        THEN [outcome |-> "ValueError", idx |-> 0, value |-> Zero]
        ELSE IF i \notin 0..(Size(sp.func) - 1)
             THEN [outcome |-> "IndexError", idx |-> i, value |-> Zero]
             ELSE [outcome |-> "value", idx |-> i, value |-> EvalSeg(sp.func[i], p)]

\* splines(p) for one scalar p: func[map_points(p)](p).  A Python list takes
\* an index in -len..len-1 (a negative one counts from the end) and raises
\* IndexError on any other.
Call(sp, p) ==
    LET i == map_points(sp, p)
        len == Size(sp.func)
    IN  IF p # sp.end /\ ~IsFinite(Quotient(sp, p))
        THEN [outcome |-> "ValueError", idx |-> 0, value |-> Zero]
        ELSE IF i >= len \/ i < -len
             THEN [outcome |-> "IndexError", idx |-> i, value |-> Zero]
             ELSE [outcome |-> "value", idx |-> i,
                   value |-> EvalSeg(sp.func[IF i < 0 THEN i + len ELSE i], p)]

\* ------------------------------------------------------------ cubic_spline4
\* h = x[1:] - x[:-1]
Widths(x) == [i \in 0..(Size(x) - 2) |-> RSub(x[i + 1], x[i])]
\* as Slopes, had the division by h been left out
Slopes_noh(y, h) == [i \in DOMAIN h |-> RMul(RSub(y[i + 1], y[i]), R(6))]

\* b = (y[1:] - y[:-1]) * (6 / h)
Slopes(y, h) == [i \in DOMAIN h |-> RMul(RSub(y[i + 1], y[i]), RDiv(R(6), h[i]))]
\* u = 2 * (h[1:] + h[:-1])
Diag(h) == [i \in 0..(Size(h) - 2) |-> RMul(R(2), RAdd(h[i + 1], h[i]))]
\* v = b[1:] - b[:-1]
Rhs(b) == [i \in 0..(Size(b) - 2) |-> RSub(b[i + 1], b[i])]

\* u[1:] -= h[1:-1] ** 2 / u[:-1]: numpy evaluates the whole right-hand side
\* from the array as it is before the statement, then subtracts
Eliminate_u(u, h) ==
    [i \in DOMAIN u |-> IF i = 0 THEN u[0]
                        ELSE RSub(u[i], RDiv(RSq(h[i]), u[i - 1]))]

\* v[1:] -= v[:-1] * (h[1:-1] / u[:-1]): u is the array line 65 left, v the
\* array as it is before the statement
Eliminate_v(v, h, u) ==
    [i \in DOMAIN v |-> IF i = 0 THEN v[0]
                        ELSE RSub(v[i], RMul(v[i - 1], RDiv(h[i], u[i - 1])))]

\* for i in range(n - 1, 0, -1): z[i] = (v[i-1] - h[i]*z[i+1]) / u[i-1]
RECURSIVE BackSubstitute(_, _, _, _, _)
BackSubstitute(z, i, u, v, h) ==
    IF i < 1 THEN z
    ELSE BackSubstitute(
             [z EXCEPT ![i] = RDiv(RSub(v[i - 1], RMul(h[i], z[i + 1])), u[i - 1])],
             i - 1, u, v, h)

\* z = np.empty((n + 1,)); z[0], z[-1] = 0, 0; then the loop, which writes
\* z[n-1], ..., z[1] before it reads them
Moments(n, u, v, h) == BackSubstitute([i \in 0..n |-> Zero], n - 1, u, v, h)

\* The segment expressions S (lines 75-79)
MomentSegments(x, y, h, z) ==
    [i \in DOMAIN h |->
        [kind |-> "moments",
         A |-> RDiv(z[i], RMul(R(6), h[i])),
         B |-> RDiv(z[i + 1], RMul(R(6), h[i])),
         c |-> RSub(RDiv(y[i + 1], h[i]), RDiv(RMul(z[i + 1], h[i]), R(6))),
         d |-> RSub(RDiv(y[i], h[i]), RDiv(RMul(z[i], h[i]), R(6))),
         xl |-> x[i], xr |-> x[i + 1]]]

\* cubic_spline4(points): [raised, spline].  An empty list makes a
\* one-dimensional array, and points[:, 0] raises IndexError on it.
cubic_spline4(points) ==
    IF Size(points) = 0 THEN [raised |-> "IndexError"]
    ELSE LET pts == SortByX(points)
             x == ColX(pts)
             y == ColY(pts)
             n == Size(pts) - 1
             h == Widths(x)
             b == Slopes(y, h)
             u == Eliminate_u(Diag(h), h)
             v == Eliminate_v(Rhs(b), h, u)
             z == Moments(n, u, v, h)
         IN  [raised |-> "none",
              spline |-> map_S(MomentSegments(x, y, h, z), pts, "moments", points,
                               [h |-> h, b |-> b, u |-> u, v |-> v, z |-> z])]

\* ----------------------------------------------------- cubic_spline4_matrix
\* X = np.vander(x, N=4, increasing=False): the rows [x^3, x^2, x, 1]
Vander(x) == [i \in DOMAIN x |-> [k \in 0..3 |->
                 IF k = 0 THEN RCube(x[i]) ELSE IF k = 1 THEN RSq(x[i])
                 ELSE IF k = 2 THEN x[i] ELSE R(1)]]

\* np.array([3, 2, 1]) and np.array([6, 2])
D1Factor(k) == IF k = 0 THEN R(3) ELSE IF k = 1 THEN R(2) ELSE R(1)
D2Factor(k) == IF k = 0 THEN R(6) ELSE R(2)

\* M[r, c] after lines 23-32
MEntry(X, n, r, c) ==
    IF r < n THEN
        \* M[idx // 4, idx] = X[:-1, :]
        IF c \in (4 * r)..(4 * r + 3) THEN X[r][c - 4 * r] ELSE Zero
    ELSE IF r < 2 * n THEN
        \* M[idx // 4 + n, idx] = X[1:, :]
        LET i == r - n
        IN  IF c \in (4 * i)..(4 * i + 3) THEN X[i + 1][c - 4 * i] ELSE Zero
    ELSE IF r < 3 * n - 1 THEN
        \* M[idx//4 + 2n, idx] = X[1:-1, 1:] * [3, 2, 1], and its negation
        \* four columns to the right
        LET i == r - 2 * n
            k == c - 4 * i
        IN  IF k \in 0..2 THEN RMul(X[i + 1][k + 1], D1Factor(k))
            ELSE IF k \in 4..6 THEN RNeg(RMul(X[i + 1][k - 3], D1Factor(k - 4)))
            ELSE Zero
    ELSE IF r < 4 * n - 2 THEN
        \* M[idx//4 + 3n - 1, idx] = X[1:-1, 2:] * [6, 2], and its negation
        LET i == r - (3 * n - 1)
            k == c - 4 * i
        IN  IF k \in 0..1 THEN RMul(X[i + 1][k + 2], D2Factor(k))
            ELSE IF k \in 4..5 THEN RNeg(RMul(X[i + 1][k - 2], D2Factor(k - 4)))
            ELSE Zero
    ELSE IF r = 4 * n - 2 THEN
        \* M[-2, :2] = X[0, 2:] * [6, 2]
        IF c \in 0..1 THEN RMul(X[0][c + 2], D2Factor(c)) ELSE Zero
    ELSE
        \* M[-1, -4:-2] = X[-1, 2:] * [6, 2]
        LET k == c - (4 * n - 4)
        IN  IF k \in 0..1 THEN RMul(X[n][k + 2], D2Factor(k)) ELSE Zero

\* A[:n], A[n:2n] = y[:-1], y[1:]
AEntry(y, n, r) == IF r < n THEN y[r] ELSE IF r < 2 * n THEN y[r - n + 1] ELSE Zero

\* The system as rows [M[r, 0], ..., M[r, 4n-1], A[r]]
System(x, y, n) ==
    LET X == Vander(x)
    IN  [r \in 0..(4 * n - 1) |->
            [c \in 0..(4 * n) |-> IF c = 4 * n THEN AEntry(y, n, r)
                                  ELSE MEntry(X, n, r, c)]]

\* np.linalg.solve(M, A): LU factorisation with partial pivoting (LAPACK
\* gesv), then the two triangular solves; raises LinAlgError when a pivot
\* column holds no nonzero entry.
RECURSIVE PivotRow(_, _, _, _)
PivotRow(G, c, r, best) ==
    \* the row of c..N-1 whose entry in column c is largest in magnitude
    IF r >= Size(G) THEN best
    ELSE PivotRow(G, c, r + 1,
                  IF RLess(RAbs(G[best][c]), RAbs(G[r][c])) THEN r ELSE best)

RECURSIVE RowMinus(_, _, _, _)
RowMinus(row, f, prow, j) ==
    \* row - f * prow, from column j on
    IF j >= Size(row) THEN row
    ELSE RowMinus(IF prow[j][1] = 0 THEN row
                  ELSE [row EXCEPT ![j] = RSub(row[j], RMul(f, prow[j]))],
                  f, prow, j + 1)

RECURSIVE ClearBelow(_, _, _)
ClearBelow(G, c, r) ==
    IF r >= Size(G) THEN G
    ELSE ClearBelow(IF G[r][c][1] = 0 THEN G
                    ELSE [G EXCEPT ![r] = RowMinus(G[r], RDiv(G[r][c], G[c][c]), G[c], c)],
                    c, r + 1)

RECURSIVE Factorise(_, _)
Factorise(G, c) ==
    \* [singular, G]: G in row echelon form
    IF c >= Size(G) THEN [singular |-> FALSE, G |-> G]
    ELSE LET p == PivotRow(G, c, c + 1, c)
         IN  IF G[p][c][1] = 0 THEN [singular |-> TRUE, G |-> G]
             ELSE Factorise(ClearBelow([G EXCEPT ![c] = G[p], ![p] = G[c]], c, c + 1),
                            c + 1)

RECURSIVE RowDot(_, _, _, _)
RowDot(row, sol, j, acc) ==
    \* acc - sum of row[k] * sol[k] for k >= j
    IF j >= Size(sol) THEN acc
    ELSE RowDot(row, sol, j + 1,
                IF row[j][1] = 0 THEN acc ELSE RSub(acc, RMul(row[j], sol[j])))

RECURSIVE Substitute(_, _, _)
Substitute(G, sol, i) ==
    IF i < 0 THEN sol
    ELSE Substitute(G, [sol EXCEPT ![i] =
                            RDiv(RowDot(G[i], sol, i + 1, G[i][Size(G)]), G[i][i])],
                    i - 1)

linalg_solve(G) ==
    LET f == Factorise(G, 0)
    IN  IF f.singular THEN [singular |-> TRUE]
        ELSE [singular |-> FALSE,
              x |-> Substitute(f.G, [i \in DOMAIN G |-> Zero], Size(G) - 1)]

\* coeff.reshape((-1, 4)) and S = coeff[:,0]*x**3 + ... + coeff[:,3]
PolySegments(coeff, n) ==
    [i \in 0..(n - 1) |->
        [kind |-> "matrix", a |-> coeff[4 * i], b |-> coeff[4 * i + 1],
         c |-> coeff[4 * i + 2], d |-> coeff[4 * i + 3]]]

\* Lines 36-41, given what np.linalg.solve did
MatrixResult(sol, pts, points) ==
    IF sol.singular THEN [raised |-> "LinAlgError"]
    ELSE [raised |-> "none",
          spline |-> map_S(PolySegments(sol.x, Size(pts) - 1), pts, "matrix", points,
                           [coeff |-> sol.x])]

\* cubic_spline4_matrix(points): [raised, spline].  With no point,
\* points[:, 0] raises IndexError; with one, M is 0 x 0 and M[-2, :2] does.
cubic_spline4_matrix(points) ==
    IF Size(points) <= 1 THEN [raised |-> "IndexError"]
    ELSE LET pts == SortByX(points)
         IN  MatrixResult(linalg_solve(System(ColX(pts), ColY(pts), Size(pts) - 1)),
                          pts, points)

\* ------------------------------------------------------------------- state
VARIABLES
    points,     \* the caller's point collection, in the caller's order
    splines,    \* the spline functions the builders have returned, oldest first
    raised,     \* the exception the last builder call raised, or "none"
    answer      \* what the pending call of a spline function gave

vars == <<points, splines, raised, answer>>

NoAnswer == [outcome |-> "none"]

\* the query points: the integers of [0, MaxX]
QueryPts == {R(k) : k \in 0..MaxX}

\* the elements of a set of integers as an ascending array
AscArray(s) == [i \in 0..(Cardinality(s) - 1) |->
                   CHOOSE v \in s : Cardinality({w \in s : w < v}) = i]

XSets(lo, hi) == {s \in SUBSET (0..MaxX) : Cardinality(s) \in lo..hi}

DistinctX(pts) == \A i, j \in DOMAIN pts : i # j => pts[i][1] # pts[j][1]

\* A caller with k+1 >= 2 points of pairwise distinct x, given in ascending
\* order of x
Init ==
    /\ \E s \in XSets(2, MaxSeg + 1) :
          \E ys \in [0..(Cardinality(s) - 1) -> YVals] :
             points = [i \in DOMAIN ys |-> <<AscArray(s)[i], ys[i]>>]
    /\ splines = <<>>
    /\ raised = "none"
    /\ answer = NoAnswer

\* A builder is called while no call of a spline function is pending, and
\* not twice on the same argument (it would return an equal spline).
CanBuild(builder) ==
    /\ answer = NoAnswer
    /\ Len(splines) < MaxSplines
    /\ \A i \in DOMAIN splines :
          ~(splines[i].builder = builder /\ splines[i].input = points)

Returned(r) ==
    /\ raised' = r.raised
    /\ splines' = IF r.raised = "none" THEN Append(splines, r.spline) ELSE splines

\* as BuildMoments, had the builder sorted the caller's array in place
BuildMoments_inplace ==
    /\ CanBuild("moments")
    /\ \E r \in {cubic_spline4(points)} : Returned(r)
    /\ points' = SortByX(points)
    /\ UNCHANGED answer

\* spline = cubic_spline4(points)
BuildMoments ==
    /\ CanBuild("moments")
    /\ \E r \in {cubic_spline4(points)} : Returned(r)
    /\ UNCHANGED <<points, answer>>

\* spline_mat = cubic_spline4_matrix(points)
BuildMatrix ==
    /\ CanBuild("matrix")
    /\ \E r \in {cubic_spline4_matrix(points)} : Returned(r)
    /\ UNCHANGED <<points, answer>>

\* splines[i](p)
Query(i, p) ==
    /\ answer = NoAnswer
    /\ \E r \in {Call(splines[i], p)} :
          answer' = [outcome |-> r.outcome, idx |-> r.idx, value |-> r.value,
                     i |-> i, p |-> p]
    /\ UNCHANGED <<points, splines, raised>>

\* the caller takes the result (or handles the exception)
Discard ==
    /\ answer # NoAnswer
    /\ answer' = NoAnswer
    /\ UNCHANGED <<points, splines, raised>>

\* The caller, having built one spline from its ascending collection, reorders
\* the collection in place: reversed, or rotated by one row.
Ascending(pts) == \A i \in DOMAIN pts : i > 0 => pts[i - 1][1] < pts[i][1]

CanReorder == answer = NoAnswer /\ Len(splines) = 1 /\ Ascending(points)

CallerReverse ==
    /\ CanReorder
    /\ points' = [i \in DOMAIN points |-> points[Size(points) - 1 - i]]
    /\ UNCHANGED <<splines, raised, answer>>

CallerRotate ==
    /\ CanReorder
    /\ points' = [i \in DOMAIN points |-> points[(i + 1) % Size(points)]]
    /\ UNCHANGED <<splines, raised, answer>>

Next ==
    \/ BuildMoments
    \/ BuildMatrix
    \/ \E i \in DOMAIN splines : \E p \in QueryPts : Query(i, p)
    \/ Discard

Spec == Init /\ [][Next]_vars

\* A caller whose points all lie on one line y = m*x + k
SlopeVals == {-1, 0, 1, 2}
InterceptVals == {0, 1}

InitLine ==
    /\ \E s \in XSets(2, MaxSeg + 1) : \E m \in SlopeVals : \E k \in InterceptVals :
          points = [i \in DOMAIN AscArray(s) |->
                       <<AscArray(s)[i], m * AscArray(s)[i] + k>>]
    /\ splines = <<>>
    /\ raised = "none"
    /\ answer = NoAnswer

SpecLine == InitLine /\ [][Next]_vars

\* A caller that builds a spline, reorders its collection, calls the same
\* builder again, and goes on calling the first spline
SameBuilderAgain(builder) ==
    Ascending(points) \/ (splines # <<>> /\ splines[1].builder = builder)

InitCaller ==
    /\ \E s \in XSets(2, MaxSeg) :
          \E ys \in [0..(Cardinality(s) - 1) -> YVals] :
             points = [i \in DOMAIN ys |-> <<AscArray(s)[i], ys[i]>>]
    /\ splines = <<>>
    /\ raised = "none"
    /\ answer = NoAnswer

NextCaller ==
    \/ SameBuilderAgain("moments") /\ BuildMoments
    \/ SameBuilderAgain("matrix") /\ BuildMatrix
    \/ \E p \in QueryPts : splines # <<>> /\ Query(1, p)
    \/ Discard
    \/ CallerReverse
    \/ CallerRotate

SpecCaller == InitCaller /\ [][NextCaller]_vars

\* A caller whose collection has fewer than two points, or two points of
\* equal x; the rows are in any order
MaxBadPts == 3
MaxBadX == 2

InitInvalid ==
    /\ \E k \in 0..MaxBadPts :
          points \in {pts \in [0..(k - 1) -> (0..MaxBadX) \X YVals] :
                         k < 2 \/ ~DistinctX(pts)}
    /\ splines = <<>>
    /\ raised = "none"
    /\ answer = NoAnswer

SpecInvalid == InitInvalid /\ [][Next]_vars

\* ------------------------------------------------ notions the properties use
Valid(pts) == Size(pts) >= 2 /\ DistinctX(pts)
SamePoints(a, b) == {a[i] : i \in DOMAIN a} = {b[i] : i \in DOMAIN b}
InDomain(sp, p) == RLeq(sp.start, p) /\ RLeq(p, sp.end)
Answered == answer.outcome # "none"
Asked == splines[answer.i]
\* breakpoint k of a spline, and the y given there
BreakX(sp, k) == R(sp.pts[k][1])
BreakY(sp, k) == R(sp.pts[k][2])

\* first and second derivative of a segment expression at q
D1(seg, q) ==
    IF seg.kind = "matrix"
    THEN RAdd(RAdd(RMul(RMul(R(3), seg.a), RSq(q)), RMul(RMul(R(2), seg.b), q)), seg.c)
    ELSE RAdd(RSub(RMul(RMul(R(3), seg.B), RSq(RSub(q, seg.xl))),
                   RMul(RMul(R(3), seg.A), RSq(RSub(seg.xr, q)))),
              RSub(seg.c, seg.d))
D2(seg, q) ==
    IF seg.kind = "matrix"
    THEN RAdd(RMul(RMul(R(6), seg.a), q), RMul(R(2), seg.b))
    ELSE RAdd(RMul(RMul(R(6), seg.A), RSub(seg.xr, q)),
              RMul(RMul(R(6), seg.B), RSub(q, seg.xl)))

\* the Thomas recurrence run in increasing order of i, each step on the
\* already-updated u[i-1] and v[i-1]
RECURSIVE ThomasU(_, _, _)
ThomasU(u, h, i) ==
    IF i >= Size(u) THEN u
    ELSE ThomasU([u EXCEPT ![i] = RSub(u[i], RDiv(RSq(h[i]), u[i - 1]))], h, i + 1)
RECURSIVE ThomasV(_, _, _, _)
ThomasV(v, h, u, i) ==
    IF i >= Size(v) THEN v
    ELSE ThomasV([v EXCEPT ![i] = RSub(v[i], RDiv(RMul(v[i - 1], h[i]), u[i - 1]))],
                 h, u, i + 1)
\* h[i-1]*z[i-1] + 2(h[i-1]+h[i])*z[i] + h[i]*z[i+1] = b[i] - b[i-1]
MomentEquation(l, i) ==
    RAdd(RAdd(RMul(l.h[i - 1], l.z[i - 1]),
              RMul(RMul(R(2), RAdd(l.h[i - 1], l.h[i])), l.z[i])),
         RMul(l.h[i], l.z[i + 1])) = RSub(l.b[i], l.b[i - 1])

\* ------------------------------------------------------------------ claims

\* C1: interpolation exactness.  For a point set of at least two points with
\* pairwise distinct x and either builder, the returned spline function
\* called on an input x_k returns y_k.
CE_C1 ==
    Answered /\ Valid(Asked.input) =>
        \A k \in DOMAIN Asked.pts :
            answer.p = BreakX(Asked, k) =>
                answer.outcome = "value" /\ answer.value = BreakY(Asked, k)

\* C2: builder equivalence.  For a point set with pairwise distinct x and a
\* query inside [min(x), max(x)], the spline of cubic_spline4_matrix and the
\* spline of cubic_spline4 give the same value.
CE_C2 ==
    Answered /\ Valid(Asked.input) /\ InDomain(Asked, answer.p) =>
        \A j \in DOMAIN splines :
            splines[j].builder # Asked.builder /\ SamePoints(splines[j].input, Asked.input)
                => Call(splines[j], answer.p).value = answer.value

\* C3: C1/C2 continuity.  At every interior breakpoint x_{i+1} the segments
\* s_i and s_{i+1} of either builder have equal first and equal second
\* derivatives.
CE_C3 ==
    \A j \in DOMAIN splines :
        Valid(splines[j].input) =>
            \A i \in 0..(splines[j].n - 2) :
                LET f == splines[j].func
                    q == BreakX(splines[j], i + 1)
                IN  D1(f[i], q) = D1(f[i + 1], q) /\ D2(f[i], q) = D2(f[i + 1], q)

\* C9: correct segment dispatch.  For a query p inside [x_0, x_n] the index
\* map_S computes lies in 0..n-1 and names the segment that contains p.
CE_C9 ==
    Answered /\ Valid(Asked.input) /\ InDomain(Asked, answer.p) =>
        /\ answer.idx \in 0..(Asked.n - 1)
        /\ RLeq(BreakX(Asked, answer.idx), answer.p)
        /\ RLeq(answer.p, BreakX(Asked, answer.idx + 1))

\* C10: forward elimination is the sequential Thomas recurrence.  The arrays
\* u and v cubic_spline4 holds after elimination equal the result of the
\* recurrence run for i = 1..n-2 in increasing order, and the moments z
\* satisfy the tridiagonal equation at every interior breakpoint.
CE_C10 ==
    \A j \in DOMAIN splines :
        splines[j].builder = "moments" /\ Valid(splines[j].input) /\ splines[j].n >= 2 =>
            LET l == splines[j].locals
                u == ThomasU(Diag(l.h), l.h, 1)
            IN  /\ l.u = u
                /\ l.v = ThomasV(Rhs(l.b), l.h, u, 1)
                /\ \A i \in 1..(splines[j].n - 1) : MomentEquation(l, i)

\* C4: invalid input is rejected at construction.  A point set with fewer
\* than two points, or with two points of equal x, makes either builder fail
\* with InvalidInputError, and no spline function is returned.
CE_C4 ==
    /\ \A j \in DOMAIN splines : Valid(splines[j].input)
    /\ ~Valid(points) /\ raised # "none" => raised = "InvalidInputError"

\* C5: order invariance.  Splines built by the same builder from the same
\* points given in different orders answer every query alike.
Thm_C5 ==
    Answered =>
        \A j \in DOMAIN splines :
            /\ splines[j].builder = Asked.builder
            /\ Valid(Asked.input)
            /\ SamePoints(splines[j].input, Asked.input)
            => \E r \in {Call(splines[j], answer.p)} :
                  /\ r.outcome = answer.outcome
                  /\ r.idx = answer.idx
                  /\ r.value = answer.value

Wit_C5 ==
    /\ Answered
    /\ answer.outcome = "value"
    /\ Asked.builder = "matrix"
    /\ Asked.n >= 2
    /\ \A k \in DOMAIN Asked.pts : answer.p # BreakX(Asked, k)
    /\ \E j \in DOMAIN splines :
          /\ splines[j].builder = "matrix"
          /\ splines[j].input # Asked.input
          /\ SamePoints(splines[j].input, Asked.input)

Collinear(pts) ==
    \A i \in DOMAIN pts :
        (pts[i][2] - pts[0][2]) * (pts[1][1] - pts[0][1])
            = (pts[1][2] - pts[0][2]) * (pts[i][1] - pts[0][1])
\* the line through the first two points, at q
LineAt(pts, q) ==
    RAdd(R(pts[0][2]),
         RMul(RDiv(R(pts[1][2] - pts[0][2]), R(pts[1][1] - pts[0][1])),
              RSub(q, R(pts[0][1]))))
\* the coefficients of x^3 and x^2 of a segment expression
CubicTerm(seg) == IF seg.kind = "matrix" THEN seg.a ELSE RSub(seg.B, seg.A)
QuadraticTerm(seg) ==
    IF seg.kind = "matrix" THEN seg.b
    ELSE RMul(R(3), RSub(RMul(seg.A, seg.xr), RMul(seg.B, seg.xl)))

\* C6: collinear data gives the line.  For points of pairwise distinct x on
\* one line y = m*x + k, every moment z_i of cubic_spline4 is 0, every
\* segment of either builder has zero cubic and quadratic terms, and the
\* spline of either builder gives m*q + k at every query q in [min(x), max(x)].
Thm_C6 ==
    /\ \A j \in DOMAIN splines :
          Valid(splines[j].input) /\ Collinear(splines[j].pts) =>
              /\ splines[j].builder = "moments" =>
                    \A k \in DOMAIN splines[j].locals.z : splines[j].locals.z[k] = Zero
              /\ \A i \in DOMAIN splines[j].func :
                    /\ CubicTerm(splines[j].func[i]) = Zero
                    /\ QuadraticTerm(splines[j].func[i]) = Zero
    /\ Answered /\ Valid(Asked.input) /\ Collinear(Asked.pts) /\ InDomain(Asked, answer.p)
          => answer.outcome = "value" /\ answer.value = LineAt(Asked.pts, answer.p)

Wit_C6 ==
    /\ Answered
    /\ Asked.builder = "moments"
    /\ Asked.n >= 3
    /\ Collinear(Asked.pts)
    /\ Asked.pts[1][2] # Asked.pts[0][2]
    /\ \E i \in DOMAIN Asked.locals.h : Asked.locals.h[i] # Asked.locals.h[0]
    /\ InDomain(Asked, answer.p)
    /\ \A k \in DOMAIN Asked.pts : answer.p # BreakX(Asked, k)
    /\ \E j \in DOMAIN splines : splines[j].builder = "matrix"

\* a call of a spline function on a p below min(x) or above max(x)
OutOfDomain == Answered /\ Valid(Asked.input) /\ ~InDomain(Asked, answer.p)

\* C7: out-of-domain queries are unguarded.  A query below min(x) or above
\* max(x) gets a segment index outside 0..n-1 and no error is raised; a
\* value is returned.
CE_C7 ==
    OutOfDomain => answer.idx \notin 0..(Asked.n - 1) /\ answer.outcome = "value"

\* C7, with the outcome of the lookup: a query outside [min(x), max(x)] is
\* not checked against the domain and gets a segment index outside 0..n-1.  Above max(x) the index
\* is >= n and the lookup raises IndexError.  Below min(x) the index is
\* negative: from -n on the lookup counts from the end, and the value of
\* segment n + index at p is returned with no error; below -n the lookup
\* raises IndexError.
Thm_C7 ==
    OutOfDomain =>
        /\ answer.idx \notin 0..(Asked.n - 1)
        /\ RLess(Asked.end, answer.p) =>
              answer.idx >= Asked.n /\ answer.outcome = "IndexError"
        /\ RLess(answer.p, Asked.start) =>
              /\ answer.idx < 0
              /\ answer.idx >= -Asked.n =>
                    /\ answer.outcome = "value"
                    /\ answer.value = EvalSeg(Asked.func[Asked.n + answer.idx], answer.p)
              /\ answer.idx < -Asked.n => answer.outcome = "IndexError"

Wit_C7 ==
    /\ OutOfDomain
    /\ RLess(answer.p, Asked.start)
    /\ answer.idx = -1
    /\ Asked.n >= 2
    /\ answer.outcome = "value"
    /\ answer.value # Zero

\* what a spline function holds: the values its closure captured
Closure(sp) == [n |-> sp.n, func |-> sp.func, start |-> sp.start, end |-> sp.end,
                rang |-> sp.rang]

\* C8: a built spline is immutable and independent of its source.  No later
\* step (a query, a builder call, a change the caller makes to its
\* collection) changes what a spline returned earlier answers, and a builder
\* call leaves the caller's collection as it was, in content and order.
Thm_C8 ==
    [][/\ \A i \in DOMAIN splines :
             i \in DOMAIN splines' /\ Closure(splines'[i]) = Closure(splines[i])
       /\ (Len(splines') > Len(splines) \/ raised' # raised) => points' = points]_vars

Wit_C8 ==
    /\ Len(splines) = 2
    /\ splines[1].input # points
    /\ splines[2].input = points
    /\ splines[2].builder = "moments"
    /\ Answered
    /\ answer.i = 1
    /\ answer.outcome = "value"
====
